---------------------------- MODULE Spec2Model ----------------------------
(***************************************************************************)
(* A model of geomstats/riemannian_metric.py: the RiemannianMetric base    *)
(* class, its derived operations (inner_product, squared_norm, norm,       *)
(* squared_dist, dist, variance) and the iterative weighted Frechet mean.  *)
(*                                                                         *)
(* Numbers: the floating point values of the code are modelled as exact    *)
(* rationals <<n, d>> (d > 0, lowest terms); a square root is kept in the  *)
(* exact form r * sqrt(k), k square-free, so rounding is abstracted away.  *)
(* A call of a method is one behaviour: Init draws the method and its      *)
(* arguments, the actions run it.                                          *)
(***************************************************************************)
EXTENDS Integers, Sequences, FiniteSets, TLC

\* ------------------------------------------------------------------ bounds
\* Coordinates of the input points and vectors are integers in 0..MaxCoord
\* (vectors also take the negated values).
MaxCoord == 1
\* At most MaxPoints points (and weights) in a call of variance or mean.
MaxPoints == 2
\* Weights are integers in 1..MaxWeight.
MaxWeight == 2
\* n_max_iterations is drawn from 1..MaxIter.
MaxIter == 2
\* The loop of mean is followed for at most n_max_iterations + ExtraIterations
\* iterations (the code itself sets no such limit).
ExtraIterations == 1
\* Weights are rescaled by the factors 2..MaxScale and their reciprocals.
MaxScale == 2

\* ------------------------------------------------------- program constants
\* dimension of the metric (RiemannianMetric.__init__).
Dimension == 1
\* EPSILON = 1e-5 = 1 / EpsilonDen.
EpsilonDen == 100000

\* ------------------------------------------------------ rational arithmetic
Abs(x) == IF x < 0 THEN -x ELSE x

RECURSIVE Gcd(_, _)
Gcd(a, b) == IF b = 0 THEN a ELSE Gcd(b, a % b)

\* The rational n / d in lowest terms with a positive denominator.
Rat(n, d) ==
    LET g == Gcd(Abs(n), Abs(d))
        s == IF d < 0 THEN -1 ELSE 1
    IN  <<s * (n \div g), s * (d \div g)>>

RInt(k) == <<k, 1>>
RZero == RInt(0)
RAdd(a, b) == Rat(a[1] * b[2] + b[1] * a[2], a[2] * b[2])
RSub(a, b) == Rat(a[1] * b[2] - b[1] * a[2], a[2] * b[2])
RMul(a, b) == Rat(a[1] * b[1], a[2] * b[2])
RDiv(a, b) == Rat(a[1] * b[2], a[2] * b[1])

RECURSIVE FracLess(_, _, _, _)
\* n1 / d1 < n2 / d2 for positive denominators, by comparing the integer
\* parts and then the reciprocals of the fractional parts (no product is
\* formed, so it cannot overflow).
FracLess(n1, d1, n2, d2) ==
    LET q1 == n1 \div d1
        q2 == n2 \div d2
        r1 == n1 % d1
        r2 == n2 % d2
    IN  IF q1 # q2 THEN q1 < q2
        ELSE IF r2 = 0 THEN FALSE
        ELSE IF r1 = 0 THEN TRUE
        ELSE FracLess(d2, r2, d1, r1)

RLess(a, b) == FracLess(a[1], a[2], b[1], b[2])

\* -------------------------------------------------------- vectors, matrices
Idx == 1..Dimension
VAdd(u, v) == [i \in DOMAIN u |-> RAdd(u[i], v[i])]
VSub(u, v) == [i \in DOMAIN u |-> RSub(u[i], v[i])]
VScale(r, v) == [i \in DOMAIN v |-> RMul(r, v[i])]
VDiv(v, r) == [i \in DOMAIN v |-> RDiv(v[i], r)]

RECURSIVE RSum(_, _)
\* f[1] + ... + f[k]
RSum(f, k) == IF k = 0 THEN RZero ELSE RAdd(RSum(f, k - 1), f[k])

\* np.dot of two vectors, and of a (transposed) vector with a matrix.
Dot(u, v) == RSum([i \in DOMAIN u |-> RMul(u[i], v[i])], Len(u))
DotVecMat(u, m) ==
    [j \in DOMAIN u |-> RSum([i \in DOMAIN u |-> RMul(u[i], m[i][j])], Len(u))]

\* np.zeros_like, np.ones, sum
zeros_like(v) == [i \in DOMAIN v |-> RZero]
ones(n) == [i \in 1..n |-> RInt(1)]
sum(ws) == RSum(ws, Len(ws))

\* ------------------------------------------------------------- square root
RECURSIVE SquarePart(_, _)
\* The largest s <= c with s * s dividing m (m >= 1, c >= 1).
SquarePart(m, c) == IF m % (c * c) = 0 THEN c ELSE SquarePart(m, c - 1)

\* np.sqrt of a rational q >= 0, exactly: <<r, k>> stands for r * sqrt(k) with
\* r a non-negative rational and k a square-free positive integer.
sqrt(q) ==
    IF q[1] = 0 THEN <<RZero, 1>>
    ELSE LET m == q[1] * q[2]
             s == SquarePart(m, m)
         IN  <<Rat(s, q[2]), m \div (s * s)>>

\* The square of the real number r * sqrt(k).
SurdSquare(x) == RMul(RMul(x[1], x[1]), RInt(x[2]))
SurdNonNegative(x) == ~RLess(x[1], RZero) /\ x[2] >= 1


\* ------------------------------------------------- outcomes of an operation
\* An operation returns a value or raises; either way it has invoked the
\* metric's capabilities (log, exp, inner_product_matrix) some number of times.
NoCalls == [log |-> 0, exp |-> 0, ipm |-> 0]
OneLog == [log |-> 1, exp |-> 0, ipm |-> 0]
OneExp == [log |-> 0, exp |-> 1, ipm |-> 0]
OneIpm == [log |-> 0, exp |-> 0, ipm |-> 1]
AddCalls(a, b) ==
    [log |-> a.log + b.log, exp |-> a.exp + b.exp, ipm |-> a.ipm + b.ipm]
NoError == "none"
None == <<>>
Return(v, c) == [err |-> NoError, val |-> v, calls |-> c]
Raise(e, c) == [err |-> e, val |-> None, calls |-> c]
\* The outcome r with the calls c made before it.
After(c, r) == [r EXCEPT !.calls = AddCalls(c, r.calls)]

\* ------------------------------------------------------ metric capabilities
\* A metric is the base class itself ("abstract": every capability raises
\* NotImplementedError) or a concrete variant supplying inner_product_matrix,
\* exp and log; has_squared_distance tells whether the variant also has an
\* attribute squared_distance (the base class defines squared_dist only).
MetricKinds == {"abstract", "euclidean", "minkowski", "scaled"}
Metrics == [kind : MetricKinds, has_squared_distance : BOOLEAN]

Diagonal(d) == [i \in Idx |-> [j \in Idx |-> IF i = j THEN d[i] ELSE RZero]]

inner_product_matrix(metric, base_point) ==
    CASE metric.kind = "abstract" -> Raise("NotImplementedError", OneIpm)
      [] metric.kind = "euclidean" ->
            Return(Diagonal([i \in Idx |-> RInt(1)]), OneIpm)
      [] metric.kind = "minkowski" ->
            Return(Diagonal([i \in Idx |-> IF i = 1 THEN RInt(-1) ELSE RInt(1)]),
                   OneIpm)
      [] metric.kind = "scaled" ->
            Return(Diagonal([i \in Idx |-> RAdd(RInt(1), base_point[1])]), OneIpm)

exp(metric, tangent_vec, base_point) ==
    CASE metric.kind = "abstract" -> Raise("NotImplementedError", OneExp)
      [] metric.kind \in {"euclidean", "minkowski"} ->
            Return(VAdd(base_point, tangent_vec), OneExp)
      [] metric.kind = "scaled" ->
            Return(VAdd(base_point, VDiv(tangent_vec, RInt(2))), OneExp)

log(metric, point, base_point) ==
    CASE metric.kind = "abstract" -> Raise("NotImplementedError", OneLog)
      [] metric.kind \in {"euclidean", "minkowski"} ->
            Return(VSub(point, base_point), OneLog)
      [] metric.kind = "scaled" ->
            Return(VScale(RInt(2), VSub(point, base_point)), OneLog)

\* ------------------------------------------------------- derived operations
inner_product(metric, tangent_vec_a, tangent_vec_b, base_point) ==
    LET inner_prod_mat == inner_product_matrix(metric, base_point)
    IN  IF inner_prod_mat.err # NoError THEN inner_prod_mat
        ELSE Return(Dot(DotVecMat(tangent_vec_a, inner_prod_mat.val),
                        tangent_vec_b),
                    inner_prod_mat.calls)

squared_norm(metric, vector, base_point) ==
    inner_product(metric, vector, vector, base_point)

\* norm raising on a squared norm of 0 as well (sq_norm <= 0).
norm_rejects_zero(metric, vector, base_point) ==
    LET sq_norm == squared_norm(metric, vector, base_point)
    IN  IF sq_norm.err # NoError THEN sq_norm
        ELSE IF ~RLess(RZero, sq_norm.val)
             THEN Raise("ValueError", sq_norm.calls)
             ELSE Return(sqrt(sq_norm.val), sq_norm.calls)

norm(metric, vector, base_point) ==
    LET sq_norm == squared_norm(metric, vector, base_point)
    IN  IF sq_norm.err # NoError THEN sq_norm
        ELSE IF RLess(sq_norm.val, RZero)
             THEN Raise("ValueError", sq_norm.calls)
             ELSE Return(sqrt(sq_norm.val), sq_norm.calls)

squared_dist(metric, point_a, point_b) ==
    LET l == log(metric, point_b, point_a)
    IN  IF l.err # NoError THEN l
        ELSE After(l.calls, squared_norm(metric, l.val, point_a))

dist(metric, point_a, point_b) ==
    LET sq_dist == squared_dist(metric, point_a, point_b)
    IN  IF sq_dist.err # NoError THEN sq_dist
        ELSE IF RLess(sq_dist.val, RZero)
             THEN Raise("ValueError", sq_dist.calls)
             ELSE Return(sqrt(sq_dist.val), sq_dist.calls)

\* self.squared_distance(a, b): the attribute lookup fails on a metric that
\* has no such attribute; where a variant has it, it is its squared distance.
squared_distance(metric, point_a, point_b) ==
    IF ~metric.has_squared_distance THEN Raise("AttributeError", NoCalls)
    ELSE squared_dist(metric, point_a, point_b)

RECURSIVE VarianceLoop(_, _, _, _, _, _)
\* The for loop of variance from index i on, with the sum so far in r.val.
VarianceLoop(metric, base_point, points, weights, i, r) ==
    IF i > Len(points) THEN r
    ELSE LET sq_dist == squared_distance(metric, base_point, points[i])
         IN  IF sq_dist.err # NoError THEN After(r.calls, sq_dist)
             ELSE VarianceLoop(metric, base_point, points, weights, i + 1,
                      Return(RAdd(r.val, RMul(weights[i], sq_dist.val)),
                             AddCalls(r.calls, sq_dist.calls)))

\* variance without its first assertion (n_points > 0).
variance_accepts_empty(metric, base_point, points, weights) ==
    LET n_points == Len(points)
        n_weights == Len(weights)
    IN  IF ~(n_points = n_weights) THEN Raise("AssertionError", NoCalls)
        ELSE VarianceLoop(metric, base_point, points, weights, 1,
                          Return(RZero, NoCalls))

variance(metric, base_point, points, weights) ==
    LET n_points == Len(points)
        n_weights == Len(weights)
    IN  IF ~(n_points > 0) THEN Raise("AssertionError", NoCalls)
        ELSE IF ~(n_points = n_weights) THEN Raise("AssertionError", NoCalls)
        ELSE VarianceLoop(metric, base_point, points, weights, 1,
                          Return(RZero, NoCalls))

\* ------------------------------------------------------------------- mean
EPSILON == Rat(1, EpsilonDen)

RECURSIVE TangentLoop(_, _, _, _, _, _)
\* The for loop of mean's iteration from index i on: r.val is tangent_mean.
TangentLoop(metric, mean, points, weights, i, r) ==
    IF i > Len(points) THEN r
    ELSE LET l == log(metric, points[i], mean)
         IN  IF l.err # NoError THEN After(r.calls, l)
             ELSE TangentLoop(metric, mean, points, weights, i + 1,
                      Return(VAdd(r.val, VScale(weights[i], l.val)),
                             AddCalls(r.calls, l.calls)))

\* What one iteration assigns, when nothing in it raises.
Assigned(tm, mn, sd, var, c) ==
    [err |-> NoError, calls |-> c, tangent_mean |-> tm, mean_next |-> mn,
     sq_dist |-> sd, variance |-> var]
Failed(r) ==
    [err |-> r.err, calls |-> r.calls, tangent_mean |-> None, mean_next |-> None,
     sq_dist |-> None, variance |-> None]

\* The body of the while loop, from the log at the current estimate to the
\* variance at mean_next.
IterationBody(metric, mean, points, weights, sum_weights) ==
    LET a_tangent_vector == log(metric, mean, mean)
    IN  IF a_tangent_vector.err # NoError THEN Failed(a_tangent_vector)
        ELSE
        LET acc == TangentLoop(metric, mean, points, weights, 1,
                       Return(zeros_like(a_tangent_vector.val),
                              a_tangent_vector.calls))
        IN  IF acc.err # NoError THEN Failed(acc)
            ELSE
            LET tangent_mean == VDiv(acc.val, sum_weights)
                mean_next == After(acc.calls, exp(metric, tangent_mean, mean))
            IN  IF mean_next.err # NoError THEN Failed(mean_next)
                ELSE
                LET sd == After(mean_next.calls,
                                squared_distance(metric, mean_next.val, mean))
                IN  IF sd.err # NoError THEN Failed(sd)
                    ELSE
                    LET var == After(sd.calls,
                                   variance(metric, mean_next.val, points, weights))
                    IN  IF var.err # NoError THEN Failed(var)
                        ELSE Assigned(tangent_mean, mean_next.val, sd.val,
                                      var.val, var.calls)

\* The stopping test with <= in place of <.
StoppingCriterion_nonstrict(sd, epsilon, var) == ~RLess(RMul(epsilon, var), sd)

\* if sq_dist < epsilon * variance: break
StoppingCriterion(sd, epsilon, var) == RLess(sd, RMul(epsilon, var))

\* The message of logging.warning: its format argument is n_max_iterations.
WarningMessage(n_max_iterations) ==
    <<"Maximum number of iterations ", n_max_iterations,
      " reached.The mean may be inaccurate">>

\* mean without the return for a single point.
IsSinglePoint_never(n_points) == FALSE

\* if n_points == 1: return mean
IsSinglePoint(n_points) == n_points = 1

\* The loop with the assignment mean = mean_next.
mean_after_iteration_assigned(mean, mean_next) == mean_next

\* The estimate after an iteration that did not leave the loop: the loop
\* assigns mean_next, never mean.
mean_after_iteration(mean, mean_next) == mean

\* mean returning the estimate computed last.
MeanReturnValue_next(mean, mean_next) == mean_next

\* return mean (the statement after the loop)
MeanReturnValue(mean, mean_next) == mean

\* ------------------------------------------------------------------ inputs
Coords == {RInt(k) : k \in 0..MaxCoord}
SignedCoords == {RInt(k) : k \in -MaxCoord..MaxCoord}
Points == [Idx -> Coords]
Vectors == [Idx -> SignedCoords]
Weights == {RInt(k) : k \in 1..MaxWeight}
PointLists == UNION {[1..n -> Points] : n \in 0..MaxPoints}
WeightLists == UNION {[1..n -> Weights] : n \in 0..MaxPoints}
Tolerances == {EPSILON, RInt(1)}

Calls ==
    [op : {"norm"}, metric : Metrics, vector : Vectors, base_point : Points]
    \cup [op : {"dist"}, metric : Metrics, point_a : Points, point_b : Points]
    \cup [op : {"variance"}, metric : Metrics, base_point : Points,
          points : PointLists, weights : WeightLists]
    \cup [op : {"mean"}, metric : Metrics, points : PointLists,
          weights_is_None : {FALSE}, weights : WeightLists,
          n_max_iterations : 1..MaxIter, epsilon : Tolerances]
    \cup [op : {"mean"}, metric : Metrics, points : PointLists,
          weights_is_None : {TRUE}, weights : {None},
          n_max_iterations : 1..MaxIter, epsilon : Tolerances]

\* ------------------------------------------------------------------- state
VARIABLES
    call,       \* the method called and its arguments
    pc,         \* "start", "loop" (inside mean's while loop) or "done"
    locals,     \* the local variables of mean
    result,     \* None while running, then [err, val]: the value returned
                \* (err = "none") or the exception raised
    calls,      \* how often log, exp, inner_product_matrix have been invoked
    warnings    \* the messages passed to logging.warning

vars == <<call, pc, locals, result, calls, warnings>>

NoLocals ==
    [weights |-> None, sum_weights |-> None, mean |-> None, it |-> 0,
     tangent_mean |-> None, mean_next |-> None, sq_dist |-> None,
     variance |-> None, sq_dists_between_iterates |-> <<>>]

Init ==
    /\ call \in Calls
    /\ pc = "start"
    /\ locals = NoLocals
    /\ result = None
    /\ calls = NoCalls
    /\ warnings = <<>>

\* The call ends with outcome r (a Return or a Raise).
Finish(r) ==
    /\ pc' = "done"
    /\ result' = [err |-> r.err, val |-> r.val]
    /\ calls' = AddCalls(calls, r.calls)

Norm ==
    /\ pc = "start" /\ call.op = "norm"
    /\ Finish(norm(call.metric, call.vector, call.base_point))
    /\ UNCHANGED <<call, locals, warnings>>

Dist ==
    /\ pc = "start" /\ call.op = "dist"
    /\ Finish(dist(call.metric, call.point_a, call.point_b))
    /\ UNCHANGED <<call, locals, warnings>>

Variance ==
    /\ pc = "start" /\ call.op = "variance"
    /\ Finish(variance(call.metric, call.base_point, call.points, call.weights))
    /\ UNCHANGED <<call, locals, warnings>>

\* mean, from its entry to the first test of the while loop.
MeanEnter ==
    /\ pc = "start" /\ call.op = "mean"
    /\ LET n_points == Len(call.points)
           weights == IF call.weights_is_None THEN ones(n_points)
                      ELSE call.weights
           n_weights == Len(weights)
       IN  IF ~(n_points > 0) \/ ~(n_points = n_weights)
           THEN /\ Finish(Raise("AssertionError", NoCalls))
                /\ UNCHANGED locals
           ELSE /\ locals' = [locals EXCEPT !.weights = weights,
                                            !.sum_weights = sum(weights),
                                            !.mean = call.points[1]]
                /\ IF IsSinglePoint(n_points)
                   THEN Finish(Return(call.points[1], NoCalls))
                   ELSE pc' = "loop" /\ UNCHANGED <<result, calls>>
    /\ UNCHANGED <<call, warnings>>

\* One iteration of the while loop of mean.
MeanIterate ==
    /\ pc = "loop"
    /\ locals.it < call.n_max_iterations + ExtraIterations
    /\ \E b \in {IterationBody(call.metric, locals.mean, call.points,
                              locals.weights, locals.sum_weights)} :
       LET it == locals.it + 1
       IN  IF b.err # NoError
           THEN /\ Finish(Raise(b.err, b.calls))
                /\ locals' = [locals EXCEPT !.it = it]
                /\ UNCHANGED warnings
           ELSE /\ locals' = [locals EXCEPT
                      !.it = it,
                      !.mean = mean_after_iteration(@, b.mean_next),
                      !.tangent_mean = b.tangent_mean,
                      !.mean_next = b.mean_next,
                      !.sq_dist = b.sq_dist,
                      !.variance = b.variance,
                      !.sq_dists_between_iterates = Append(@, b.sq_dist)]
                /\ IF StoppingCriterion(b.sq_dist, call.epsilon, b.variance)
                   THEN /\ Finish(Return(MeanReturnValue(locals.mean,
                                                          b.mean_next),
                                          b.calls))
                        /\ UNCHANGED warnings
                   ELSE /\ pc' = "loop"
                        /\ calls' = AddCalls(calls, b.calls)
                        /\ UNCHANGED result
                        /\ warnings' =
                             IF it = call.n_max_iterations
                             THEN Append(warnings,
                                         WarningMessage(call.n_max_iterations))
                             ELSE warnings
    /\ UNCHANGED call

Next == Norm \/ Dist \/ Variance \/ MeanEnter \/ MeanIterate

Spec == Init /\ [][Next]_vars

\* ------------------------------------------------------------ vocabulary
Done == pc = "done"
Returned == pc = "done" /\ result.err = NoError
\* The metric supplies inner_product_matrix, exp and log.
Concrete == call.metric.kind # "abstract"
\* Every call the loop of mean makes resolves on the metric.
Resolves == Concrete /\ call.metric.has_squared_distance
\* points and weights pass the assertions of variance and mean.
ValidVariance ==
    call.op = "variance" /\ Len(call.points) > 0
    /\ Len(call.weights) = Len(call.points)
ValidMean ==
    call.op = "mean" /\ Len(call.points) > 0
    /\ (call.weights_is_None \/ Len(call.weights) = Len(call.points))
\* A call of mean that enters the while loop.
LoopingMean == ValidMean /\ Len(call.points) >= 2

\* ---------------------------------------------------------------------- C1
\* C1: a call of mean with n >= 2 points and valid weights, on a metric on
\* which every call of the loop resolves, performs at most n_max_iterations
\* iterations and then returns: it has ended once the counter reaches
\* n_max_iterations, and it ends by returning an estimate.
C1_MeanStopsAtMaxIterations ==
    (LoopingMean /\ Resolves) =>
        /\ locals.it <= call.n_max_iterations
        /\ (locals.it >= call.n_max_iterations => Done)
        /\ (Done => result.err = NoError)

\* ---------------------------------------------------------------------- C2
RECURSIVE WeightedPointSum(_, _, _)
\* weights[1] * points[1] + ... + weights[k] * points[k]
WeightedPointSum(points, weights, k) ==
    IF k = 1 THEN VScale(weights[1], points[1])
    ELSE VAdd(WeightedPointSum(points, weights, k - 1),
              VScale(weights[k], points[k]))

Centroid(points, weights) ==
    VDiv(WeightedPointSum(points, weights, Len(points)), sum(weights))

\* The squared Euclidean distance of two points.
FlatSquaredDist(p, q) == Dot(VSub(p, q), VSub(p, q))

\* C2: under the flat metric, a call of mean with n >= 2 points and positive
\* weights returns the weighted centroid sum_i(weights[i] * points[i]) /
\* sum(weights) within the tolerance: the flat space converges in the first
\* iteration, so the call has ended once an iteration has run, and what it
\* returns is the centroid or closer to it than epsilon. (Stated for points
\* that are not all the same point.)
C2_FlatMeanIsCentroid ==
    (LoopingMean /\ Resolves /\ call.metric.kind = "euclidean"
        /\ \E i \in DOMAIN call.points : call.points[i] # call.points[1]) =>
        /\ (locals.it >= 1 => Done)
        /\ Done =>
             /\ result.err = NoError
             /\ LET c == Centroid(call.points, locals.weights)
                IN  \/ result.val = c
                    \/ RLess(FlatSquaredDist(result.val, c), call.epsilon)

\* ---------------------------------------------------------------------- C3
\* C3: in a call of mean the warning (whose message holds n_max_iterations) is
\* emitted exactly once when the stopping criterion failed in each of the
\* iterations 1..n_max_iterations, never when the criterion held in one of
\* them, and in the warning case mean still returns a result: the iteration
\* that warns is the last one.
C3_WarningOnceAndReturn ==
    (LoopingMean /\ Resolves) =>
        /\ Len(warnings) <= 1
        /\ (pc = "loop" /\ locals.it >= call.n_max_iterations
               => Len(warnings) = 1)
        /\ (Returned /\ locals.it <= call.n_max_iterations
               /\ StoppingCriterion(locals.sq_dist, call.epsilon, locals.variance)
               => warnings = <<>>)
        /\ (Len(warnings) = 1 =>
               /\ warnings[1] = WarningMessage(call.n_max_iterations)
               /\ Returned)

\* ---------------------------------------------------------------------- C4
RECURSIVE WeightedSquaredDists(_, _, _, _, _)
\* sum over i <= k of weights[i] * squared_dist(base_point, points[i])
WeightedSquaredDists(metric, base_point, points, weights, k) ==
    IF k = 0 THEN RZero
    ELSE RAdd(WeightedSquaredDists(metric, base_point, points, weights, k - 1),
              RMul(weights[k],
                   squared_dist(metric, base_point, points[k]).val))

\* C4: on a metric that supplies only the required capabilities
\* (inner_product_matrix, exp, log), variance(base_point, points, weights) with
\* n >= 1 points and n weights returns the sum over i of weights[i] *
\* squared_dist(base_point, points[i]), not divided by sum(weights).
C4_VarianceIsWeightedSum ==
    (ValidVariance /\ Concrete /\ ~call.metric.has_squared_distance /\ Done) =>
        /\ result.err = NoError
        /\ result.val = WeightedSquaredDists(call.metric, call.base_point,
                            call.points, call.weights, Len(call.points))

\* ---------------------------------------------------------------------- C5
\* The squared quantity of a call of norm or dist.
SquaredQuantity ==
    IF call.op = "norm"
    THEN squared_norm(call.metric, call.vector, call.base_point).val
    ELSE squared_dist(call.metric, call.point_a, call.point_b).val

\* C5: on a metric supplying the capabilities, norm(v, p) raises the domain
\* error (ValueError) exactly when squared_norm(v, p) < 0 and dist(a, b)
\* raises it exactly when squared_dist(a, b) < 0; in every other case, a
\* squared quantity of 0 included, the call raises nothing and returns the
\* non-negative root r with r * r equal to the squared quantity.
C5_DomainErrorIffNegative ==
    (call.op \in {"norm", "dist"} /\ Concrete /\ Done) =>
        IF RLess(SquaredQuantity, RZero)
        THEN result.err = "ValueError"
        ELSE /\ result.err = NoError
             /\ SurdNonNegative(result.val)
             /\ SurdSquare(result.val) = SquaredQuantity

\* A call of norm on a vector of squared norm exactly 0 has returned the root 0.
C5_Witness ==
    /\ call.op = "norm" /\ Concrete /\ Returned
    /\ SquaredQuantity = RZero
    /\ result.val[1] = RZero

\* ---------------------------------------------------------------------- C6
\* points is empty, or weights are given and their number is not the number
\* of points.
InvalidArguments ==
    /\ call.op \in {"variance", "mean"}
    /\ \/ Len(call.points) = 0
       \/ call.op = "variance" /\ Len(call.weights) # Len(call.points)
       \/ call.op = "mean" /\ ~call.weights_is_None
             /\ Len(call.weights) # Len(call.points)

\* C6: variance and mean called with an empty points collection, or with
\* weights whose length differs from the number of points, fail with the
\* invalid-argument error (the AssertionError of the code) before any metric
\* capability is invoked and before any loop iteration runs; no result and no
\* warning is produced.
C6_InvalidArgumentsFailFirst ==
    InvalidArguments =>
        /\ calls = NoCalls
        /\ locals.it = 0
        /\ warnings = <<>>
        /\ pc # "loop"
        /\ Done => (result.err = "AssertionError" /\ result.val = None)

\* A call given weights of the wrong length with a non-empty points collection
\* has failed with the AssertionError.
C6_Witness ==
    /\ InvalidArguments /\ Done
    /\ Len(call.points) >= 1 /\ Len(call.weights) >= 1
    /\ result.err = "AssertionError"

\* ---------------------------------------------------------------------- C7
\* C7: for a single point p and any weights of length 1 (or no weights),
\* mean([p]) returns exactly p without executing any loop iteration: no call
\* of log, exp or inner_product_matrix is made, no weight is applied and no
\* warning is emitted, whatever weights[0] and n_max_iterations are.
C7_SinglePointShortCircuit ==
    (ValidMean /\ Len(call.points) = 1) =>
        /\ pc # "loop"
        /\ locals.it = 0
        /\ calls = NoCalls
        /\ warnings = <<>>
        /\ Done => (result.err = NoError /\ result.val = call.points[1])

\* mean of one point with the weight 2, on the base class itself, has returned.
C7_Witness ==
    /\ ValidMean /\ Len(call.points) = 1 /\ Done
    /\ ~call.weights_is_None /\ call.weights[1] = RInt(2)
    /\ call.metric.kind = "abstract"
    /\ result.val = call.points[1]

\* ---------------------------------------------------------------------- C8
ScaleFactors ==
    {RInt(k) : k \in 2..MaxScale} \cup {Rat(1, k) : k \in 2..MaxScale}
ScaleWeights(c, weights) == [i \in DOMAIN weights |-> RMul(c, weights[i])]

\* What the iteration just performed computes with the weights rescaled by c.
RescaledIteration(c) ==
    IterationBody(call.metric, locals.mean, call.points,
                  ScaleWeights(c, locals.weights),
                  sum(ScaleWeights(c, locals.weights)))

\* C8: mean is invariant under rescaling of the weights: for every constant
\* c > 0, mean(points, c * weights) has the same outcome as
\* mean(points, weights): the iteration just performed computes the same
\* mean_next and takes the same decision to leave the loop or to go on (hence
\* the same number of iterations and the same warning) with the weights
\* c * weights.
C8_WeightRescalingInvariant ==
    (LoopingMean /\ Resolves /\ locals.it >= 1) =>
        \A c \in ScaleFactors :
            LET b == RescaledIteration(c)
            IN  /\ b.err = NoError
                /\ b.mean_next = locals.mean_next
                /\ StoppingCriterion(b.sq_dist, call.epsilon, b.variance)
                   = StoppingCriterion(locals.sq_dist, call.epsilon,
                                       locals.variance)

\* ---------------------------------------------------------------------- C9
\* C9: inside mean the current estimate `mean` is never reassigned: in every
\* state of the loop it equals points[0], and whenever mean returns, the
\* value returned is points[0] and not the computed mean_next, whatever the
\* number of iterations performed.
C9_EstimateIsFirstPoint ==
    (ValidMean /\ pc # "start") =>
        /\ locals.mean = call.points[1]
        /\ Returned => result.val = call.points[1]

\* mean has returned after an iteration that computed a mean_next other than
\* points[0].
C9_Witness ==
    /\ LoopingMean /\ Returned
    /\ locals.it >= 1
    /\ locals.mean_next # call.points[1]
    /\ result.val = call.points[1]

\* --------------------------------------------------------------------- C10
\* The values an iteration computes.
Computed(ls) == <<ls.tangent_mean, ls.mean_next, ls.sq_dist, ls.variance>>

\* C10: every iteration of the loop of mean computes the same tangent_mean,
\* mean_next, sq_dist and variance as the first one (only `it` changes), so
\* the stopping test has the same truth value in every iteration: an
\* iteration after the first neither leaves the loop nor raises, and a call
\* that returns from the loop returns in iteration 1.
C10_IterationsRepeat ==
    /\ [][(pc = "loop" /\ locals.it >= 1) =>
             /\ pc' = "loop"
             /\ Computed(locals') = Computed(locals)
             /\ locals'.it = locals.it + 1]_vars
    /\ [](LoopingMean /\ Returned => locals.it = 1)

\* A second iteration has run on distinct points and has computed the squared
\* distance of the first one again.
C10_Witness ==
    /\ LoopingMean /\ pc = "loop"
    /\ locals.it >= 2
    /\ call.points[1] # call.points[2]
    /\ Len(locals.sq_dists_between_iterates) = locals.it
    /\ locals.sq_dists_between_iterates[1] = locals.sq_dists_between_iterates[2]

\* --------------------------------------------------------------------- C11
\* Squared distances >= 0 the stopping test is tried on: 0 and k / d.
NonNegativeSqDists ==
    {Rat(k, d) : k \in 0..(MaxCoord + 1), d \in 1..(MaxWeight + 1)}

\* C11: the stopping test of mean is the strict inequality sq_dist <
\* epsilon * variance: an iteration that computed variance = 0 and
\* sq_dist >= 0 does not leave the loop through the test (the call stays in
\* the loop), and for every sq_dist >= 0, 0 and the positive ones alike, the
\* test is false at variance = 0; this covers n >= 2 identical points, where
\* sq_dist = 0 and variance = 0.
C11_StrictStoppingTest ==
    /\ (LoopingMean /\ locals.it >= 1 /\ locals.variance = RZero
           /\ ~RLess(locals.sq_dist, RZero)) => pc = "loop"
    /\ call.op = "mean" =>
          \A sd \in NonNegativeSqDists :
              ~StoppingCriterion(sd, call.epsilon, RZero)

\* An iteration on two identical points has computed sq_dist = 0 and
\* variance = 0, and the call is still in the loop.
C11_Witness ==
    /\ LoopingMean /\ pc = "loop" /\ locals.it >= 1
    /\ call.points[1] = call.points[2]
    /\ locals.sq_dist = RZero
    /\ locals.variance = RZero

=============================================================================
